---- MODULE Spec2Model ----
(***************************************************************************)
(* Model of the glyph_cartographer backend's tile engine: the satellite   *)
(* index (tileService, stored in services/inferenceService.js from line   *)
(* 60 on), the remote tile fetcher, the p-limit batch downloader, the SSE  *)
(* response stream and the label/satellite sync controller.               *)
(*                                                                         *)
(* Spec      one downloadTilesSSE request (streamTiles over a client list) *)
(*           running beside the index build started at module load.        *)
(* SpecSync  one syncLabelsWithTilesSSE request over an arbitrary label /  *)
(*           good-negative / satellite disk state.                         *)
(* SpecDownload  Spec plus a download request whose payload is unusable.   *)
(* SpecLabels    saveLabelMask and updateGoodNegatives, one after the other.*)
(* SpecRace      one sync request beside updateGoodNegatives requests.     *)
(* SpecIndex     index builds, forced rebuilds and their readers.          *)
(* SpecLookup    getTileFilePath beside external file changes.             *)
(* SpecPred      the prediction index and getPredictionFilePath.           *)
(* SpecOverlap   two updateGoodNegatives requests at once.                 *)
(* SpecResync    a second sync request after the first has ended.          *)
(* SpecFresh     the listing endpoints beside external file changes.       *)
(* SpecHook      the frontend's useTileDownloader effect and its stream.   *)
(* SpecLive      one request, sync or download, under a fair event loop.   *)
(***************************************************************************)
EXTENDS Integers, Sequences, FiniteSets, TLC

\* ---------------------------------------------------------------- universe

\* Tile keys "x,y" kept as the pair that k.split(',') yields.
Keys == {<<10, 20>>, <<10, 21>>}

\* Directory order of the keys (readdir order, also the order of the sorted
\* good_negatives.json array).
KeySeq == <<(<<10, 20>>), (<<10, 21>>)>>

\* A client string without a comma, "7": k.split(',') yields one part.
BadKeys == {<<7>>}

\* yStr of a key without a comma: `${yStr}.png` is "undefined.png".
Undefined == -1

\* The files a label operation can touch: LABELS_DIR/17/{xStr}/{yStr}.png,
\* named by the key whose split gives xStr and yStr.
LabelPaths == Keys \cup BadKeys

\* Tile keys of a satellite directory with two x directories.
IndexKeys == {<<10, 20>>, <<11, 20>>}

\* The models with a directory under PREDS_DATA_PATH.
Models == {"unet", "vit"}

\* Posted PNG bodies, and solid black as sharp creates it.
Images == {"black", "faint", "drawn"}

\* Longest array posted to updateGoodNegatives.
MaxBody == 3

\* Longest client tile list of one downloadTilesSSE request.
MaxTiles == 3

\* p-limit's cap, Number(process.env.CONCURRENCY) || 10: set by the
\* environment, here small enough for a work list to exceed it.
CONCURRENCY == 2

\* Walker 0 is the build started at module load, walker 1 a forced rebuild.
\* Clicks on the download button in one session.
MaxTrigger == 3


WalkerIds == {0, 1}

VARIABLES
    tileFile,        \* OUT_DIR/17/x/y.png: "none", "old", "new" (complete) or "partial"
    existingTiles,   \* the in-memory satellite index
    walker,          \* per buildIndex() call: its state and the x dirs still to read
    buildIndexPromise, \* the walker the module-level promise refers to
    labelFile,       \* LABELS_DIR/17/x/y.png: "none", "black", "faint" or "drawn"
    goodNegatives,   \* the array held by good_negatives.json
    res,             \* the SSE events written to the response so far
    connected,       \* the subscriber is still connected
    pc,              \* position of the request handler
    overwrite,       \* the batch's overwrite flag
    work,            \* streamTiles' work list
    task,            \* per work entry: position of its limit(...) callback
    result,          \* per work entry: how its fetchTileNode call settled
    settled,         \* work entries in the order their fetchTileNode calls settled
    httpCount,       \* per work entry: HTTP requests it issued to the provider
    gtfp,            \* the getTileFilePath call in flight or last returned
    listing,         \* per caller: its getExistingTiles call
    ugn,             \* the updateGoodNegatives request in flight or last answered
    slm,             \* the last saveLabelMask call, or <<>>
    predFile,        \* the (model, key) pairs with a file under PREDS_DATA_PATH
    predictionIndex, \* Map<short_model_name, Set<"x,y">>
    buildIndexesPromise, \* "pending" or "resolved"
    predCall,        \* the getPredictionFilePath call in flight or last returned
    sync,            \* locals of syncLabelsWithTilesSSE
    ugnOther,        \* a second updateGoodNegatives request, waiting at an await
    syncRun,         \* which sync request this is, and how the one before it went
    oaiFile,         \* OAI_PREDS_DATA_PATH/{model}/17/x/y.json: "none", "json" or "bad"
    oaiPredictionIndex, \* Map<short_model_name, Map<tileKey, data>>, by its keys
    oaiCall,         \* the getExistingOaiPredictions call in flight or last returned
    predList,        \* the getExistingPredictions calls answered so far
    hook,            \* the client's useTileDownloader: its refs, state and props
    hist             \* history: the failures raised so far, the disk at the start

vars == <<tileFile, existingTiles, walker, buildIndexPromise, labelFile,
          goodNegatives, res, connected, pc, overwrite, work, task, result,
          settled, httpCount, gtfp, listing, ugn, slm, predFile, predictionIndex,
          buildIndexesPromise, predCall, sync, ugnOther, syncRun, oaiFile, oaiPredictionIndex, oaiCall,
          predList, hook, hist>>

diskVars == <<tileFile, labelFile, goodNegatives>>
indexVars == <<existingTiles, walker, buildIndexPromise>>
batchVars == <<overwrite, work, task, result, settled, httpCount>>
predVars == <<predFile, predictionIndex, buildIndexesPromise, predCall>>
oaiVars == <<oaiFile, oaiPredictionIndex, oaiCall, predList>>
restVars == <<oaiVars, hook>>
extVars == <<ugnOther, syncRun, restVars>>
callVars == <<gtfp, listing, ugn, slm, predVars, extVars>>

\* The keys a satellite directory can hold, and the x directories under
\* OUT_DIR/{z}/ that the index walk visits.
TileKeys == DOMAIN tileFile
Dirs == {k[1] : k \in TileKeys}

\* ---------------------------------------------------------------- helpers

RECURSIVE SeqsUpTo(_, _)
SeqsUpTo(S, n) ==
    IF n = 0 THEN {<<>>}
    ELSE LET shorter == SeqsUpTo(S, n - 1)
         IN shorter \cup {Append(s, e) : s \in {t \in shorter : Len(t) = n - 1}, e \in S}

\* [...set] of a Set built in directory order, filtered by a predicate.
FilterSeq(s, S) == SelectSeq(s, LAMBDA k : k \in S)

Range(s) == {s[n] : n \in DOMAIN s}

\* [...new Set(array)]: the first occurrence of each element, in array order.
RECURSIVE Distinct(_)
Distinct(s) ==
    IF s = <<>> THEN <<>>
    ELSE LET front == Distinct(SubSeq(s, 1, Len(s) - 1))
             last == s[Len(s)]
         IN IF last \in Range(front) THEN front ELSE Append(front, last)

\* The decimal digits of a coordinate, as code units ordered like '0'..'9';
\* the comma (0) sorts before every digit.
RECURSIVE Digits(_)
Digits(n) == IF n < 10 THEN <<n + 1>> ELSE Append(Digits(n \div 10), (n % 10) + 1)

\* The string "x,y" (or "x") a key stands for.
KeyString(k) == IF Len(k) = 2 THEN Digits(k[1]) \o <<0>> \o Digits(k[2]) ELSE Digits(k[1])

\* a < b in the code-unit order Array.prototype.sort() uses without a comparator.
RECURSIVE StrLess(_, _)
StrLess(a, b) ==
    IF b = <<>> THEN FALSE
    ELSE IF a = <<>> THEN TRUE
    ELSE IF a[1] # b[1] THEN a[1] < b[1]
    ELSE StrLess(Tail(a), Tail(b))

\* [...set].sort()
RECURSIVE SortKeys(_)
SortKeys(S) ==
    IF S = {} THEN <<>>
    ELSE LET m == CHOOSE k \in S : \A j \in S \ {k} : StrLess(KeyString(k), KeyString(j))
         IN <<m>> \o SortKeys(S \ {m})

\* getGoodNegatives(): new Set(JSON.parse(fileContent)); a missing file reads
\* as the empty array.
GetGoodNegatives == Range(goodNegatives)

\* fsPromises.access(outPath) succeeds for any file at the path, whole or not.
FileExists(k) == tileFile[k] # "none"

\* SSE blocks.
TotalEv(n) == [type |-> "total", n |-> n]
ItemEv(kind, k) == [type |-> "item", kind |-> kind, key |-> k]
EndEv == [type |-> "end"]
ErrorEv == [type |-> "error"]

Items(s) == SelectSeq(s, LAMBDA e : e.type = "item")
Count(s, type) == Len(SelectSeq(s, LAMBDA e : e.type = type))

\* No getTileFilePath call yet, a getExistingTiles caller that has not called,
\* an updateGoodNegatives handler that has not been asked.
ListIds == {"a", "b"}
NoGtfp == [key |-> <<>>, st |-> "idle", w |-> 0, ok |-> FALSE, exists |-> FALSE,
           ret |-> "none"]
NoListing == [st |-> "idle", force |-> FALSE, w |-> 0, tiles |-> {}]
NoUgn == [st |-> "idle", isArray |-> TRUE, body |-> <<>>, newSet |-> <<>>,
          current |-> {}, addTodo |-> <<>>, rmTodo |-> <<>>]

NoPredCall == [model |-> "", key |-> <<>>, st |-> "idle", indexed |-> FALSE,
               exists |-> FALSE, ret |-> "none"]

\* No getExistingOaiPredictions call yet, no getExistingPredictions call yet.
NoOaiCall == [model |-> "", st |-> "idle", todo |-> <<>>, acc |-> {}, dirty |-> FALSE,
              result |-> {}]
NoPredList == [n |-> 0, result |-> {}, prev |-> {}]

\* useTileDownloader right after mount: no trigger yet, nothing selected.
NoHook == [downloadTrigger |-> 0, lastDownloadTrigger |-> 0, isDownloadActive |-> FALSE,
           eventSource |-> "null", isOpen |-> FALSE, downloading |-> {},
           selected |-> {}, downloaded |-> {}, newDownloadedTiles |-> {},
           hasCleanup |-> FALSE, toast |-> "", open |-> 0]

\* The first sync request of the process.
NoRun == [n |-> 1, clean |-> FALSE, total |-> -1]

NoSync == [labels |-> {}, negs |-> {}, existing |-> {}, nwm |-> <<>>,
           missing |-> <<>>, total |-> -1, created |-> 0, next |-> 1]

\* ---------------------------------------------------------------- buildIndex

\* buildIndex() up to its first await: clear the live Set, then walk.
BuildStart(w) ==
    /\ existingTiles' = {}
    /\ walker' = [walker EXCEPT ![w] = [st |-> "walking", todo |-> Dirs]]
    /\ buildIndexPromise' = w

\* walk(): one readdir of an x directory adds every .png found in it.
WalkDir(w, d) ==
    /\ walker[w].st = "walking"
    /\ d \in walker[w].todo
    /\ existingTiles' = existingTiles \cup {k \in TileKeys : k[1] = d /\ FileExists(k)}
    /\ walker' = [walker EXCEPT ![w] =
                    [st |-> IF @.todo = {d} THEN "done" ELSE "walking",
                     todo |-> @.todo \ {d}]]
    /\ UNCHANGED <<buildIndexPromise, diskVars, res, connected, pc, batchVars,
                   callVars, sync, hist>>

\* Callers that read the Set without awaiting the build.
BuildNotAwaited == TRUE


\* `await buildIndexPromise` lets the caller continue.
BuildAwaited == walker[buildIndexPromise].st = "done"

\* ---------------------------------------------------------------- fetchTileNode

Running == {i \in DOMAIN task : task[i] \notin {"queued", "done"}}

\* A limiter that never has a free slot.
SlotNever == FALSE


\* A limiter that starts every callback at once.
SlotAlways == TRUE

\* p-limit starts a queued callback only while activeCount < concurrency.
SlotFree == Cardinality(Running) < CONCURRENCY

\* p-limit's queue is first in, first out.
NextQueued(i) ==
    /\ i \in DOMAIN task
    /\ task[i] = "queued"
    /\ \A j \in DOMAIN task : j < i => task[j] # "queued"

\* The message streamTiles writes for a settled fetchTileNode call.
ItemFor(r, k) ==
    CASE r = "true" -> ItemEv("downloaded", k)
      [] r = "false" -> ItemEv("skip", k)
      [] OTHER -> ItemEv("error", k)

\* The limit(...) callback's continuation after `await fetchTileNode(...)`:
\* one data block for the tile, written in the same turn, in try and in catch.
Settle(i, r) ==
    /\ task' = [task EXCEPT ![i] = "done"]
    /\ result' = [result EXCEPT ![i] = r]
    /\ settled' = Append(settled, i)
    /\ res' = Append(res, ItemFor(r, work[i]))
    /\ hist' = IF r = "threw"
               THEN [hist EXCEPT !.failures = @ \cup {"fetch"}]
               ELSE hist

\* A fetch that is tried a second time when it fails.
IssueRequestWithRetry(i) ==
    /\ httpCount' = [httpCount EXCEPT ![i] = @ + 2]
    /\ task' = [task EXCEPT ![i] = "fetch"]

\* fetch(url) is called: one request to the provider.
IssueRequest(i) ==
    /\ httpCount' = [httpCount EXCEPT ![i] = @ + 1]
    /\ task' = [task EXCEPT ![i] = "fetch"]

\* p-limit dequeues callback i; fetchTileNode runs to its first await:
\* fsPromises.access when !overwrite, else fetch(url).
StartTask(i) ==
    /\ pc = "batch"
    /\ NextQueued(i)
    /\ SlotFree
    /\ IF overwrite
       THEN IssueRequest(i)
       ELSE /\ task' = [task EXCEPT ![i] = "access"]
            /\ UNCHANGED httpCount
    /\ UNCHANGED <<diskVars, indexVars, res, connected, pc, overwrite, work,
                   result, settled, callVars, sync, hist>>

\* A fetchTileNode that never takes the early return.
SkipNever(i) == FALSE

\* `await fsPromises.access(outPath); return false;` is taken.
SkipExisting(i) == FileExists(work[i])

\* access() settled: the file is there, return false; else go on to fetch.
AccessCheck(i) ==
    /\ i \in DOMAIN task
    /\ task[i] = "access"
    /\ IF SkipExisting(i)
       THEN /\ Settle(i, "false")
            /\ UNCHANGED httpCount
       ELSE /\ IssueRequest(i)
            /\ UNCHANGED <<result, settled, res, hist>>
    /\ UNCHANGED <<diskVars, indexVars, connected, pc, overwrite, work, callVars, sync>>

\* A fetchTileNode that opens the file before it looks at resp.ok.
FetchFailAfterOpen(i) ==
    /\ i \in DOMAIN task
    /\ task[i] = "fetch"
    /\ Settle(i, "threw")
    /\ tileFile' = [tileFile EXCEPT ![work[i]] = "partial"]
    /\ UNCHANGED <<labelFile, goodNegatives, indexVars, connected, pc, overwrite,
                   work, httpCount, callVars, sync>>

\* The provider answered non-2xx: throw new Error(`HTTP ${resp.status}`).
FetchFail(i) ==
    /\ i \in DOMAIN task
    /\ task[i] = "fetch"
    /\ Settle(i, "threw")
    /\ UNCHANGED <<diskVars, indexVars, connected, pc, overwrite, work,
                   httpCount, callVars, sync>>

\* What fsPromises.open(filePath, 'w') leaves at the canonical path.
OpenForWrite(k) == [tileFile EXCEPT ![k] = "partial"]

\* The provider answered 2xx; saveTile makes the directory and opens the
\* canonical path itself for writing, which truncates it.
FetchOk(i) ==
    /\ i \in DOMAIN task
    /\ task[i] = "fetch"
    /\ tileFile' = OpenForWrite(work[i])
    /\ task' = [task EXCEPT ![i] = "pipe"]
    /\ UNCHANGED <<labelFile, goodNegatives, indexVars, res, connected, pc,
                   overwrite, work, result, settled, httpCount, callVars, sync, hist>>

\* Another callback of the batch has the same path open for writing.
OtherWriter(i) ==
    \E j \in DOMAIN task : j # i /\ work[j] = work[i] /\ task[j] = "pipe"

\* response.body 'end': the whole body went through the pipe.  Two writers
\* on one path interleave their bytes, so the outcome is then not determined.
PipeEnd(i) ==
    /\ i \in DOMAIN task
    /\ task[i] = "pipe"
    /\ \/ tileFile' = [tileFile EXCEPT ![work[i]] = "new"]
       \/ /\ OtherWriter(i)
          /\ tileFile' = [tileFile EXCEPT ![work[i]] = "partial"]
    /\ task' = [task EXCEPT ![i] = "close"]
    /\ UNCHANGED <<labelFile, goodNegatives, indexVars, res, connected, pc,
                   overwrite, work, result, settled, httpCount, callVars, sync, hist>>

\* response.body 'error': saveTile rejects, what was written stays in place.
PipeError(i) ==
    /\ i \in DOMAIN task
    /\ task[i] = "pipe"
    /\ Settle(i, "threw")
    /\ UNCHANGED <<diskVars, indexVars, connected, pc, overwrite, work,
                   httpCount, callVars, sync>>

\* fh.close() done; existingTiles.add(`${x},${y}`); return true.
CloseAndIndex(i) ==
    /\ i \in DOMAIN task
    /\ task[i] = "close"
    /\ existingTiles' = existingTiles \cup {work[i]}
    /\ Settle(i, "true")
    /\ UNCHANGED <<diskVars, walker, buildIndexPromise, connected, pc, overwrite,
                   work, httpCount, callVars, sync>>

\* ---------------------------------------------------------------- streamTiles

\* Promise.race in place of Promise.all: the first settled callback ends the wait.
AnySettled == \E i \in DOMAIN task : task[i] = "done"

\* Promise.all over the limit(...) callbacks resolves.
AllSettled == \A i \in DOMAIN task : task[i] = "done"

\* streamTiles up to Promise.all, on a response that holds r so far: an empty
\* work list ends the stream at once.
StreamTiles(r, tiles, ow) ==
    IF tiles = <<>>
    THEN /\ res' = Append(r, EndEv)
         /\ pc' = "done"
         /\ UNCHANGED batchVars
    ELSE /\ work' = tiles
         /\ overwrite' = ow
         /\ task' = [i \in DOMAIN tiles |-> "queued"]
         /\ result' = [i \in DOMAIN tiles |-> "none"]
         /\ httpCount' = [i \in DOMAIN tiles |-> 0]
         /\ settled' = <<>>
         /\ pc' = "batch"
         /\ res' = r

\* streamTiles after Promise.all: event end, res.end().
BatchEnd ==
    /\ pc = "batch"
    /\ AllSettled
    /\ res' = Append(res, EndEv)
    /\ pc' = "done"
    /\ UNCHANGED <<diskVars, indexVars, connected, batchVars, callVars, sync, hist>>

\* downloadTilesSSE with a parsed payload.
DownloadTilesSSE(tiles, ow) ==
    /\ pc = "idle"
    /\ StreamTiles(res, tiles, ow)
    /\ UNCHANGED <<diskVars, indexVars, connected, callVars, sync, hist>>

\* The EventSource goes away; no handler of the backend listens for it.
Disconnect ==
    /\ connected
    /\ pc \notin {"idle", "done"}
    /\ connected' = FALSE
    /\ UNCHANGED <<diskVars, indexVars, res, pc, batchVars, callVars, sync, hist>>

\* ---------------------------------------------------------------- getTileFilePath, getExistingTiles

\* A caller that awaits a promise which has resolved: its continuation is a
\* microtask, it runs before the event loop takes the next callback.
ListingPending(c) == listing[c].st = "await" /\ walker[listing[c].w].st = "done"
GtfpPending == gtfp.st = "await" /\ walker[gtfp.w].st = "done"
MicrotaskPending == GtfpPending \/ \E c \in ListIds : ListingPending(c)

\* return {tiles: Array.from(existingTiles), ...}
Returned(c, force) ==
    [listing EXCEPT ![c] = [st |-> "returned", force |-> force, w |-> @.w,
                            tiles |-> existingTiles]]

\* getExistingTiles(forceRefresh) up to its await: rebuildIndex() starts a
\* build and awaits it; the cached call awaits buildIndexPromise as it is now.
GetExistingTiles(c, force) ==
    /\ ~MicrotaskPending
    /\ listing[c].st \in {"idle", "returned"}
    /\ IF force
       THEN /\ walker[1].st # "walking"
            /\ BuildStart(1)
            /\ listing' = [listing EXCEPT ![c] = [st |-> "await", force |-> TRUE, w |-> 1,
                                                  tiles |-> {}]]
       ELSE /\ listing' = IF BuildAwaited
                          THEN Returned(c, FALSE)
                          ELSE [listing EXCEPT ![c] = [st |-> "await", force |-> FALSE,
                                                       w |-> buildIndexPromise,
                                                       tiles |-> {}]]
            /\ UNCHANGED indexVars
    /\ UNCHANGED <<diskVars, res, connected, pc, batchVars, gtfp, ugn, slm, predVars, extVars,
                   sync, hist>>

\* The awaited build resolved: the caller reads the live Set.
GetExistingTilesResume(c) ==
    /\ ListingPending(c)
    /\ listing' = Returned(c, listing[c].force)
    /\ UNCHANGED <<diskVars, indexVars, res, connected, pc, batchVars, gtfp, ugn, slm,
                   predVars, extVars, sync, hist>>

\* getTileFilePath after its await: existingTiles.has(key), then
\* fsPromises.access(tilePath) is called; a key that is not in the index
\* returns null at once.
Lookup(k) ==
    IF k \in existingTiles
    THEN [key |-> k, st |-> "access", w |-> buildIndexPromise, ok |-> FileExists(k),
          exists |-> FileExists(k), ret |-> "none"]
    ELSE [key |-> k, st |-> "returned", w |-> buildIndexPromise, ok |-> FALSE,
          exists |-> FileExists(k), ret |-> "null"]

\* getTileFilePath(z, x, y) up to `await buildIndexPromise`.
GetTileFilePath(k) ==
    /\ ~MicrotaskPending
    /\ gtfp.st \in {"idle", "returned"}
    /\ gtfp' = IF BuildAwaited
               THEN Lookup(k)
               ELSE [key |-> k, st |-> "await", w |-> buildIndexPromise, ok |-> FALSE,
                     exists |-> FALSE, ret |-> "none"]
    /\ UNCHANGED <<diskVars, indexVars, res, connected, pc, batchVars, listing, ugn,
                   slm, predVars, extVars, sync, hist>>

\* The awaited build resolved.
GetTileFilePathResume ==
    /\ GtfpPending
    /\ gtfp' = Lookup(gtfp.key)
    /\ UNCHANGED <<diskVars, indexVars, res, connected, pc, batchVars, listing, ugn,
                   slm, predVars, extVars, sync, hist>>

\* access() settled: return the path, or drop the key from the index and
\* return null.
GetTileFilePathDone ==
    /\ ~MicrotaskPending
    /\ gtfp.st = "access"
    /\ existingTiles' = IF gtfp.ok THEN existingTiles ELSE existingTiles \ {gtfp.key}
    /\ gtfp' = [gtfp EXCEPT !.st = "returned", !.ret = IF gtfp.ok THEN "path" ELSE "null"]
    /\ UNCHANGED <<diskVars, walker, buildIndexPromise, res, connected, pc,
                   batchVars, listing, ugn, slm, predVars, extVars, sync, hist>>

\* ---------------------------------------------------------------- Spec

NoHist == [failures |-> {}, disk0 |-> <<>>]

InitCommon ==
    /\ existingTiles = {}
    /\ walker = [w \in WalkerIds |->
                   IF w = 0 THEN [st |-> "walking", todo |-> Dirs]
                            ELSE [st |-> "unused", todo |-> {}]]
    /\ buildIndexPromise = 0
    /\ res = <<>>
    /\ connected = TRUE
    /\ pc = "idle"
    /\ overwrite = FALSE
    /\ work = <<>>
    /\ task = <<>>
    /\ result = <<>>
    /\ settled = <<>>
    /\ httpCount = <<>>
    /\ gtfp = NoGtfp
    /\ listing = [c \in ListIds |-> NoListing]
    /\ ugn = NoUgn
    /\ slm = <<>>
    /\ predictionIndex = <<>>
    /\ buildIndexesPromise = "pending"
    /\ predCall = NoPredCall
    /\ sync = NoSync
    /\ ugnOther = NoUgn
    /\ syncRun = NoRun
    /\ oaiFile = [f \in Models \X Keys |-> "none"]
    /\ oaiPredictionIndex = <<>>
    /\ oaiCall = NoOaiCall
    /\ predList = NoPredList
    /\ hook = NoHook

Init ==
    /\ tileFile \in [Keys -> {"none", "old"}]
    /\ InitCommon
    /\ labelFile = [p \in LabelPaths |-> "none"]
    /\ goodNegatives = <<>>
    /\ predFile = {}
    /\ hist = NoHist

TaskStep(i) ==
    \/ StartTask(i)
    \/ AccessCheck(i)
    \/ FetchFail(i)
    \/ FetchOk(i)
    \/ PipeEnd(i)
    \/ PipeError(i)
    \/ CloseAndIndex(i)

Next ==
    \/ \E tiles \in SeqsUpTo(Keys, MaxTiles), ow \in BOOLEAN : DownloadTilesSSE(tiles, ow)
    \/ \E i \in 1..(MaxTiles + 1) : TaskStep(i)
    \/ BatchEnd
    \/ Disconnect
    \/ \E d \in Dirs : WalkDir(0, d)

Spec == Init /\ [][Next]_vars

\* downloadTilesSSE's catch block: JSON.parse(req.query.d) threw, or
\* streamTiles rejected before its first tile (loadSessionToken, a tiles array
\* whose entries are no pairs).  The message goes out as a data block,
\* `data: error <message>`, then res.end().
DownloadTilesSSECatch ==
    /\ pc = "idle"
    /\ res' = Append(res, ItemEv("error", <<>>))
    /\ pc' = "done"
    /\ hist' = [hist EXCEPT !.failures = @ \cup {"payload"}]
    /\ UNCHANGED <<diskVars, indexVars, connected, batchVars, callVars, sync>>

\* One download request, whose payload may be unusable.
NextDownload ==
    \/ Next
    \/ DownloadTilesSSECatch

SpecDownload == Init /\ [][NextDownload]_vars

\* ---------------------------------------------------------------- syncLabelsWithTilesSSE

\* The catch block of syncLabelsWithTilesSSE: event error, res.end().
SyncCatch(phase) ==
    /\ res' = Append(res, ErrorEv)
    /\ pc' = "done"
    /\ hist' = [hist EXCEPT !.failures = @ \cup {phase}]

\* The key getAllLabelKeys builds from a file's directory and name:
\* `${xDir.name},${yFile.replace('.png', '')}`.
LabelKeyOf(p) == IF Len(p) = 2 THEN p ELSE <<p[1], Undefined>>

\* A label index that takes only drawn masks for labels.
DrawnLabelKeys == {LabelKeyOf(p) : p \in {q \in LabelPaths : labelFile[q] \notin {"none", "black"}}}


\* getAllLabelKeys(): every .png under LABELS_DIR, whatever it holds.
AllLabelKeys == {LabelKeyOf(p) : p \in {q \in LabelPaths : labelFile[q] # "none"}}

\* An external process drops a tile into OUT_DIR; the index is not told.
\* Taken only before the request, once the first build is through, which is
\* where it leaves the cached index stale.
ExternalCreate(k) ==
    /\ pc = "idle"
    /\ walker[0].st = "done"
    /\ tileFile[k] = "none"
    /\ tileFile' = [tileFile EXCEPT ![k] = "old"]
    /\ UNCHANGED <<labelFile, goodNegatives, indexVars, res, connected, pc,
                   batchVars, callVars, sync, hist>>

\* The request arrives: writeHead, flushHeaders, getAllLabelKeys() is called.
SyncStart ==
    /\ pc = "idle"
    /\ pc' = "labels"
    /\ hist' = [hist EXCEPT !.disk0 = [tiles |-> {k \in Keys : tileFile[k] # "none"},
                                       labels |-> {k \in Keys : labelFile[k] # "none"},
                                       negs |-> GetGoodNegatives,
                                       files |-> diskVars,
                                       built |-> walker[0].st = "done",
                                       index |-> existingTiles]]
    /\ UNCHANGED <<diskVars, indexVars, res, connected, batchVars, callVars, sync>>

\* getAllLabelKeys() resolved; getGoodNegatives() is called.
SyncReadLabels ==
    /\ pc = "labels"
    /\ sync' = [sync EXCEPT !.labels = AllLabelKeys]
    /\ pc' = "negs"
    /\ UNCHANGED <<diskVars, indexVars, res, connected, batchVars, callVars, hist>>

\* getAllLabelKeys() rejected (readdir failed with something else than ENOENT).
SyncReadLabelsFail ==
    /\ pc = "labels"
    /\ SyncCatch("analyze")
    /\ UNCHANGED <<diskVars, indexVars, connected, batchVars, callVars, sync>>

\* getExistingTiles(false) in place of getExistingTiles(true).
CachedRefresh == FALSE

\* The argument of tileService.getExistingTiles(true).
ForceRefresh == TRUE

\* getGoodNegatives() resolved; requiredTiles and negativesWithoutMasks are
\* computed and getExistingTiles(true) starts the forced rebuild.
SyncReadNegs ==
    /\ pc = "negs"
    /\ sync' = [sync EXCEPT !.negs = GetGoodNegatives]
    /\ pc' = "rebuild"
    /\ IF ForceRefresh THEN BuildStart(1) ELSE UNCHANGED indexVars
    /\ UNCHANGED <<diskVars, res, connected, batchVars, callVars, hist>>

\* getGoodNegatives() rejected (the read failed with something else than ENOENT).
SyncReadNegsFail ==
    /\ pc = "negs"
    /\ SyncCatch("analyze")
    /\ UNCHANGED <<diskVars, indexVars, connected, batchVars, callVars, sync>>

\* A readdir of the forced walk rejected: rebuildIndex rejects.
SyncRebuildFail ==
    /\ pc = "rebuild"
    /\ walker[buildIndexPromise].st = "walking"
    /\ walker' = [walker EXCEPT ![buildIndexPromise].st = "failed"]
    /\ SyncCatch("plan")
    /\ UNCHANGED <<diskVars, existingTiles, buildIndexPromise, connected,
                   batchVars, callVars, sync>>

\* A filter that keeps every good negative.
AllNegatives(negs, labels) == FilterSeq(KeySeq, negs)

\* [...goodNegativeKeys].filter(key => !allLabelKeys.has(key))
NegativesWithoutMasks(negs, labels) == FilterSeq(KeySeq, negs \ labels)

\* new Set([...allLabelKeys, ...goodNegativeKeys]) in insertion order.
RequiredTiles(labels, negs) == FilterSeq(KeySeq, labels) \o FilterSeq(KeySeq, negs \ labels)

\* [...requiredTiles].filter(key => !existingTiles.has(key))
MissingTiles(required, existing) == SelectSeq(required, LAMBDA k : k \notin existing)

\* A filter that asks for three components, x, y and z.
TilePairsOfThree(missing) == SelectSeq(missing, LAMBDA k : Len(k) = 3)

\* missingTiles.map(k => k.split(',').map(Number)).filter(pair => pair.length === 2)
TilePairs(missing) == SelectSeq(missing, LAMBDA k : Len(k) = 2)

\* The download phase on a response that holds r so far: streamTiles over the
\* missing tiles, overwrite false; or the end event when nothing is missing.
SyncDownloadOrEnd(r, missing) ==
    IF Len(missing) > 0
    THEN StreamTiles(r, TilePairs(missing), FALSE)
    ELSE /\ res' = Append(r, EndEv)
         /\ pc' = "done"
         /\ UNCHANGED batchVars

\* The rebuild resolved: Array.from(existingTiles) is taken, the total is
\* written; with nothing to do the stream ends here.
SyncPlan ==
    /\ pc = "rebuild"
    /\ BuildAwaited
    /\ LET nwm == NegativesWithoutMasks(sync.negs, sync.labels)
           missing == MissingTiles(RequiredTiles(sync.labels, sync.negs), existingTiles)
           total == Len(nwm) + Len(missing)
           r == Append(res, TotalEv(total))
       IN /\ sync' = [sync EXCEPT !.existing = existingTiles, !.nwm = nwm,
                                  !.missing = missing, !.total = total]
          /\ IF total = 0
             THEN /\ res' = Append(r, EndEv)
                  /\ pc' = "done"
                  /\ UNCHANGED batchVars
             ELSE IF Len(nwm) > 0
             THEN /\ res' = r
                  /\ pc' = "maskprep"
                  /\ UNCHANGED batchVars
             ELSE SyncDownloadOrEnd(r, missing)
    /\ UNCHANGED <<diskVars, indexVars, connected, callVars, hist>>

\* createMissingMaskFiles before its loop: the imports and the black image.
SyncMaskPrep ==
    /\ pc = "maskprep"
    /\ pc' = "masks"
    /\ UNCHANGED <<diskVars, indexVars, res, connected, batchVars, callVars, sync, hist>>

\* sharp(...).png().toBuffer() rejected: nothing in createMissingMaskFiles
\* catches it, the controller's catch block does.
SyncMaskPrepFail ==
    /\ pc = "maskprep"
    /\ SyncCatch("maskprep")
    /\ UNCHANGED <<diskVars, indexVars, connected, batchVars, callVars, sync>>

\* One turn of the loop: mkdir, writeFile of the black image, data: mask_<key>.
SyncMaskWrite ==
    /\ pc = "masks"
    /\ sync.next <= Len(sync.nwm)
    /\ labelFile' = [labelFile EXCEPT ![sync.nwm[sync.next]] = "black"]
    /\ res' = Append(res, ItemEv("mask", sync.nwm[sync.next]))
    /\ sync' = [sync EXCEPT !.next = @ + 1, !.created = @ + 1]
    /\ UNCHANGED <<tileFile, goodNegatives, indexVars, connected, pc, batchVars,
                   callVars, hist>>

\* A loop without its try/catch: the failure reaches the controller's catch.
MaskWriteRethrow(k) == SyncCatch("maskio") /\ UNCHANGED sync

\* A catch block that leaves the loop: the keys after the failed one are skipped.
MaskWriteCaughtBreak(k) ==
    /\ res' = Append(res, ItemEv("maskerror", k))
    /\ sync' = [sync EXCEPT !.next = Len(sync.nwm) + 1]
    /\ hist' = [hist EXCEPT !.failures = @ \cup {"maskio"}]
    /\ pc' = pc

\* The loop's catch block: data: error mask_<key>, and on to the next key.
MaskWriteCaught(k) ==
    /\ res' = Append(res, ItemEv("maskerror", k))
    /\ sync' = [sync EXCEPT !.next = @ + 1]
    /\ hist' = [hist EXCEPT !.failures = @ \cup {"maskio"}]
    /\ pc' = pc

\* One turn of the loop whose mkdir or writeFile rejected.
SyncMaskWriteFail ==
    /\ pc = "masks"
    /\ sync.next <= Len(sync.nwm)
    /\ MaskWriteCaught(sync.nwm[sync.next])
    /\ UNCHANGED <<diskVars, indexVars, connected, batchVars, callVars>>

\* createMissingMaskFiles returned: phase 5, or the end event.
SyncAfterMasks ==
    /\ pc = "masks"
    /\ sync.next > Len(sync.nwm)
    /\ SyncDownloadOrEnd(res, sync.missing)
    /\ UNCHANGED <<diskVars, indexVars, connected, callVars, sync, hist>>

\* The label directory holds files of well-formed keys only.
InitSync ==
    /\ tileFile \in [Keys -> {"none", "old"}]
    /\ InitCommon
    /\ labelFile \in {f \in [LabelPaths -> {"none", "black", "drawn"}] :
                        \A p \in BadKeys : f[p] = "none"}
    /\ goodNegatives \in {SortKeys(S) : S \in SUBSET Keys}
    /\ predFile = {}
    /\ hist = NoHist

NextSync ==
    \/ \E k \in Keys : ExternalCreate(k)
    \/ SyncStart
    \/ SyncReadLabels
    \/ SyncReadLabelsFail
    \/ SyncReadNegs
    \/ SyncReadNegsFail
    \/ SyncRebuildFail
    \/ SyncPlan
    \/ SyncMaskPrep
    \/ SyncMaskPrepFail
    \/ SyncMaskWrite
    \/ SyncMaskWriteFail
    \/ SyncAfterMasks
    \/ \E i \in 1..Cardinality(Keys) : TaskStep(i)
    \/ BatchEnd
    \/ Disconnect
    \/ \E w \in WalkerIds, d \in Dirs : WalkDir(w, d)

SpecSync == InitSync /\ [][NextSync]_vars

\* ---------------------------------------------------------------- labelsService

\* stats.channels[0].max of a posted image.
ChannelMax(img) ==
    CASE img = "black" -> 0
      [] img = "faint" -> 1
      [] OTHER -> 255

\* A test that takes every dark image for empty.
IsEmptyBelowHalf(img) == ChannelMax(img) < 128

\* const isEmpty = stats.channels[0].max === 0
IsEmpty(img) == ChannelMax(img) = 0

\* saveLabelMask(z, x, y, imageData): rm of the label path for an empty mask,
\* else mkdir and writeFile of the posted bytes.
SaveLabelMask(k, img) ==
    /\ ugn.st \notin {"read", "run"}
    /\ labelFile' = [labelFile EXCEPT ![k] = IF IsEmpty(img) THEN "none" ELSE img]
    /\ slm' = [key |-> k, img |-> img,
               action |-> IF IsEmpty(img) THEN "deleted" ELSE "saved"]
    /\ UNCHANGED <<tileFile, goodNegatives, indexVars, res, connected, pc, batchVars,
                   gtfp, listing, ugn, predVars, extVars, sync, hist>>

\* The arrays a client posts: keys in any order, repeated or malformed.
Bodies == SeqsUpTo(Keys \cup BadKeys, MaxBody)

\* The labels controller's updateGoodNegatives: a body that is not an array
\* is answered 400; an array goes to the service as it is, which builds
\* newNegativesSet and calls getGoodNegatives().
UpdateGoodNegatives(isArray, body) ==
    /\ ugn.st \notin {"read", "run"}
    /\ ugn' = IF isArray
              THEN [NoUgn EXCEPT !.st = "read", !.body = body, !.newSet = Distinct(body)]
              ELSE [NoUgn EXCEPT !.st = "rejected", !.isArray = FALSE]
    /\ UNCHANGED <<diskVars, indexVars, res, connected, pc, batchVars, gtfp, listing,
                   slm, predVars, extVars, sync, hist>>

\* [...newNegativesSet].filter(x => !currentNegativesSet.has(x))
AddedTiles(newSet, current) == SelectSeq(newSet, LAMBDA k : k \notin Range(current))

\* A second loop that has nothing to delete.
RemovedNone(newSet, current) == <<>>

\* [...currentNegativesSet].filter(x => !newNegativesSet.has(x))
RemovedTiles(newSet, current) == SelectSeq(current, LAMBDA k : k \notin Range(newSet))

\* getGoodNegatives() resolved: addedTiles and removedTiles are computed and
\* the black image is made.
UgnRead ==
    /\ ugn.st = "read"
    /\ ugn' = [ugn EXCEPT !.st = "run",
                          !.current = GetGoodNegatives,
                          !.addTodo = AddedTiles(ugn.newSet, goodNegatives),
                          !.rmTodo = RemovedTiles(ugn.newSet, goodNegatives)]
    /\ UNCHANGED <<diskVars, indexVars, res, connected, pc, batchVars, gtfp, listing,
                   slm, predVars, extVars, sync, hist>>

\* One turn of the first loop: mkdir, writeFile of the black image at the
\* added key's label path, whatever is there.
UgnWriteMask ==
    /\ ugn.st = "run"
    /\ ugn.addTodo # <<>>
    /\ labelFile' = [labelFile EXCEPT ![Head(ugn.addTodo)] = "black"]
    /\ ugn' = [ugn EXCEPT !.addTodo = Tail(@)]
    /\ UNCHANGED <<tileFile, goodNegatives, indexVars, res, connected, pc, batchVars,
                   gtfp, listing, slm, predVars, extVars, sync, hist>>

\* mkdir or writeFile rejected: updateGoodNegatives rejects, next(err); the
\* masks written so far stay, good_negatives.json is not written.
UgnWriteMaskFail ==
    /\ ugn.st = "run"
    /\ ugn.addTodo # <<>>
    /\ ugn' = [NoUgn EXCEPT !.st = "failed"]
    /\ UNCHANGED <<diskVars, indexVars, res, connected, pc, batchVars, gtfp, listing,
                   slm, predVars, extVars, sync, hist>>

\* One turn of the second loop: fs.rm of the removed key's label path.
UgnRemoveMask ==
    /\ ugn.st = "run"
    /\ ugn.addTodo = <<>>
    /\ ugn.rmTodo # <<>>
    /\ labelFile' = [labelFile EXCEPT ![Head(ugn.rmTodo)] = "none"]
    /\ ugn' = [ugn EXCEPT !.rmTodo = Tail(@)]
    /\ UNCHANGED <<tileFile, goodNegatives, indexVars, res, connected, pc, batchVars,
                   gtfp, listing, slm, predVars, extVars, sync, hist>>

\* A writer that keeps what the file held.
PersistedMerge(newSet, old) == SortKeys(Range(newSet) \cup Range(old))

\* JSON.stringify([...newNegativesSet].sort(), null, 2) goes over the file.
Persisted(newSet, old) == SortKeys(Range(newSet))

\* writeFile(GOOD_NEGATIVES_JSON_PATH, ...) resolved; the controller answers 200.
UgnPersist ==
    /\ ugn.st = "run"
    /\ ugn.addTodo = <<>>
    /\ ugn.rmTodo = <<>>
    /\ goodNegatives' = Persisted(ugn.newSet, goodNegatives)
    /\ ugn' = [ugn EXCEPT !.st = "ok", !.newSet = <<>>]
    /\ UNCHANGED <<tileFile, labelFile, indexVars, res, connected, pc, batchVars,
                   gtfp, listing, slm, predVars, extVars, sync, hist>>

\* The label directory and good_negatives.json start empty; one client posts
\* masks and good-negative arrays, one request after the other.
InitLabels ==
    /\ tileFile = [k \in Keys |-> "old"]
    /\ InitCommon
    /\ labelFile = [p \in LabelPaths |-> "none"]
    /\ goodNegatives = <<>>
    /\ predFile = {}
    /\ hist = NoHist

NextLabels ==
    \/ \E k \in Keys, img \in Images : SaveLabelMask(k, img)
    \/ \E body \in Bodies : UpdateGoodNegatives(TRUE, body)
    \/ UpdateGoodNegatives(FALSE, <<>>)
    \/ UgnRead
    \/ UgnWriteMask
    \/ UgnWriteMaskFail
    \/ UgnRemoveMask
    \/ UgnPersist

SpecLabels == InitLabels /\ [][NextLabels]_vars

\* ---------------------------------------------------------------- index readers

\* A satellite directory with two x directories that no one writes to: the
\* build of module load, forced rebuilds, cached listings and tile lookups.
\* Callbacks of the event loop wait for the pending continuations.
InitIndex ==
    /\ tileFile \in [IndexKeys -> {"none", "old"}]
    /\ InitCommon
    /\ labelFile = [p \in LabelPaths |-> "none"]
    /\ goodNegatives = <<>>
    /\ predFile = {}
    /\ hist = NoHist

NextIndex ==
    \/ \E c \in ListIds, force \in BOOLEAN : GetExistingTiles(c, force)
    \/ \E c \in ListIds : GetExistingTilesResume(c)
    \/ \E k \in IndexKeys : GetTileFilePath(k)
    \/ GetTileFilePathResume
    \/ GetTileFilePathDone
    \/ \E w \in WalkerIds, d \in Dirs : ~MicrotaskPending /\ WalkDir(w, d)

SpecIndex == InitIndex /\ [][NextIndex]_vars

\* A tile is deleted from OUT_DIR by hand; the index is not told.
ExternalDelete(k) ==
    /\ walker[0].st = "done"
    /\ tileFile[k] = "old"
    /\ tileFile' = [tileFile EXCEPT ![k] = "none"]
    /\ UNCHANGED <<labelFile, goodNegatives, indexVars, res, connected, pc,
                   batchVars, callVars, sync, hist>>

\* Tile lookups on a directory that other processes add files to and delete
\* files from, once the build of module load is through.
NextLookup ==
    \/ \E d \in Dirs : ~MicrotaskPending /\ WalkDir(0, d)
    \/ \E k \in Keys : ExternalCreate(k)
    \/ \E k \in Keys : ExternalDelete(k)
    \/ \E k \in Keys : GetTileFilePath(k)
    \/ GetTileFilePathResume
    \/ GetTileFilePathDone

SpecLookup == Init /\ [][NextLookup]_vars

\* ---------------------------------------------------------------- predictionService

\* PREDS_DATA_PATH/{model}/17/{x}/{y}.png, as (model, key).
PredPaths == Models \X Keys

otherVars == <<diskVars, indexVars, res, connected, pc, batchVars, gtfp, listing,
               ugn, slm, sync, hist, extVars>>

\* modelTiles?.has(`${x},${y}`)
PredHas(m, k) == m \in DOMAIN predictionIndex /\ k \in predictionIndex[m]

\* predictionIndex.set(model, new Set()) when the model is new, then add.
PredAdd(m, k) ==
    [n \in DOMAIN predictionIndex \cup {m} |->
        IF n = m
        THEN (IF m \in DOMAIN predictionIndex THEN predictionIndex[m] ELSE {}) \cup {k}
        ELSE predictionIndex[n]]

\* buildPngIndex(): the glob's files go into the Map, model by model; the
\* promise of buildIndexes() resolves.
BuildPngIndex ==
    /\ buildIndexesPromise = "pending"
    /\ predictionIndex' = [m \in {f[1] : f \in predFile} |-> {f[2] : f \in {g \in predFile : g[1] = m}}]
    /\ buildIndexesPromise' = "resolved"
    /\ UNCHANGED <<predFile, predCall, otherVars>>

\* mkdir or glob rejected: buildIndexes() catches, logs and resolves over an
\* empty index.
BuildIndexesFail ==
    /\ buildIndexesPromise = "pending"
    /\ buildIndexesPromise' = "resolved"
    /\ UNCHANGED <<predFile, predictionIndex, predCall, otherVars>>

\* The inference pipeline writes a prediction tile; the index is not told.
PredExternalCreate(m, k) ==
    /\ <<m, k>> \notin predFile
    /\ predFile' = predFile \cup {<<m, k>>}
    /\ UNCHANGED <<predictionIndex, buildIndexesPromise, predCall, otherVars>>

\* A prediction tile is removed by hand.
PredExternalDelete(m, k) ==
    /\ <<m, k>> \in predFile
    /\ predFile' = predFile \ {<<m, k>>}
    /\ UNCHANGED <<predictionIndex, buildIndexesPromise, predCall, otherVars>>

\* A lookup that trusts the index alone.
PredLookupIndexOnly(m, k) ==
    [model |-> m, key |-> k, indexed |-> PredHas(m, k), exists |-> <<m, k>> \in predFile,
     st |-> "returned", ret |-> IF PredHas(m, k) THEN "path" ELSE "null"]

\* getPredictionFilePath after `await buildIndexesPromise`: an indexed key
\* returns its path at once, any other key goes to fsPromises.access.
PredLookup(m, k) ==
    [model |-> m, key |-> k, indexed |-> PredHas(m, k), exists |-> <<m, k>> \in predFile,
     st |-> IF PredHas(m, k) THEN "returned" ELSE "access",
     ret |-> IF PredHas(m, k) THEN "path" ELSE "none"]

\* getPredictionFilePath(shortModelName, z, x, y); a call made while the
\* build is pending continues when the promise resolves.
GetPredictionFilePath(m, k) ==
    /\ buildIndexesPromise = "resolved"
    /\ predCall.st \in {"idle", "returned"}
    /\ predCall' = PredLookup(m, k)
    /\ UNCHANGED <<predFile, predictionIndex, buildIndexesPromise, otherVars>>

\* access() settled: the key is added and the path returned, or null.
GetPredictionFilePathDone ==
    /\ predCall.st = "access"
    /\ predictionIndex' = IF predCall.exists
                          THEN PredAdd(predCall.model, predCall.key)
                          ELSE predictionIndex
    /\ predCall' = [predCall EXCEPT !.st = "returned",
                                    !.ret = IF predCall.exists THEN "path" ELSE "null"]
    /\ UNCHANGED <<predFile, buildIndexesPromise, otherVars>>

InitPred ==
    /\ tileFile = [k \in Keys |-> "none"]
    /\ InitCommon
    /\ labelFile = [p \in LabelPaths |-> "none"]
    /\ goodNegatives = <<>>
    /\ predFile \in SUBSET PredPaths
    /\ hist = NoHist

NextPred ==
    \/ BuildPngIndex
    \/ BuildIndexesFail
    \/ \E f \in PredPaths : PredExternalCreate(f[1], f[2])
    \/ \E f \in PredPaths : PredExternalDelete(f[1], f[2])
    \/ \E f \in PredPaths : GetPredictionFilePath(f[1], f[2])
    \/ GetPredictionFilePathDone

SpecPred == InitPred /\ [][NextPred]_vars

\* One sync request beside a client that posts good-negative arrays of
\* well-formed keys; every satellite tile is in place, so the sync run has
\* masks to create and nothing to download.
NextRace ==
    \/ \E S \in SUBSET Keys : UpdateGoodNegatives(TRUE, SortKeys(S))
    \/ UgnRead
    \/ UgnWriteMask
    \/ UgnRemoveMask
    \/ UgnPersist
    \/ SyncStart
    \/ SyncReadLabels
    \/ SyncReadNegs
    \/ SyncPlan
    \/ SyncMaskPrep
    \/ SyncMaskWrite
    \/ SyncAfterMasks
    \/ \E w \in WalkerIds, d \in Dirs : WalkDir(w, d)

SpecRace == InitLabels /\ [][NextRace]_vars

\* ---------------------------------------------------------------- two updateGoodNegatives requests at once

\* Every await of updateGoodNegatives lets the event loop run the other
\* request's handler: ugn is the request whose step is taken next, ugnOther
\* the one that waits.
UgnSwitch ==
    /\ ugn # ugnOther
    /\ ugn' = ugnOther
    /\ ugnOther' = ugn
    /\ UNCHANGED <<diskVars, indexVars, res, connected, pc, batchVars, gtfp, listing,
                   slm, predVars, syncRun, restVars, sync, hist>>

\* fs.writeFile(path, text), first half: open(path, 'w') truncates the file.
UgnPersistOpen ==
    /\ ugn.st = "run"
    /\ ugn.addTodo = <<>>
    /\ ugn.rmTodo = <<>>
    /\ goodNegatives' = <<>>
    /\ ugn' = [ugn EXCEPT !.st = "write"]
    /\ UNCHANGED <<tileFile, labelFile, indexVars, res, connected, pc, batchVars,
                   gtfp, listing, slm, predVars, ugnOther, syncRun, restVars, sync, hist>>

\* A write of `text` at offset 0 of a file that holds `file`: it covers as
\* much of the file as it is long and leaves the rest.  The entries of the
\* array are lines of one length, so a shorter text covers fewer of them.
WriteAtStart(file, text) == text \o SubSeq(file, Len(text) + 1, Len(file))

\* fs.writeFile, second half: the text is written from the handle's own
\* position 0, the handle is closed, the controller answers 200.  Node does
\* not order two writeFile calls on one path.
UgnPersistWrite ==
    /\ ugn.st = "write"
    /\ goodNegatives' = WriteAtStart(goodNegatives, Persisted(ugn.newSet, goodNegatives))
    /\ ugn' = [ugn EXCEPT !.st = "ok", !.newSet = <<>>]
    /\ UNCHANGED <<tileFile, labelFile, indexVars, res, connected, pc, batchVars,
                   gtfp, listing, slm, predVars, ugnOther, syncRun, restVars, sync, hist>>

\* The arrays of two clients: keys in any order, repeated or not.
OverlapBodies == SeqsUpTo(Keys, Cardinality(Keys))

\* good_negatives.json holds a sorted array and its members have their black
\* masks when the two requests arrive.
InitOverlap ==
    /\ tileFile = [k \in Keys |-> "old"]
    /\ InitCommon
    /\ goodNegatives \in {SortKeys(S) : S \in SUBSET Keys}
    /\ labelFile = [p \in LabelPaths |-> IF p \in Range(goodNegatives) THEN "black" ELSE "none"]
    /\ predFile = {}
    /\ hist = NoHist

\* Two POST /api/labels/good-negatives requests, each handled once.
NextOverlap ==
    \/ \E body \in OverlapBodies : ugn = NoUgn /\ UpdateGoodNegatives(TRUE, body)
    \/ UgnSwitch
    \/ UgnRead
    \/ UgnWriteMask
    \/ UgnRemoveMask
    \/ UgnPersistOpen
    \/ UgnPersistWrite

SpecOverlap == InitOverlap /\ [][NextOverlap]_vars


\* ---------------------------------------------------------------- a second sync request

\* The first response has ended and GET /api/labels/sync comes in again: a
\* new response, new locals, the process's disk and index as the first
\* request left them.
SyncAgain ==
    /\ pc = "done"
    /\ syncRun.n = 1
    /\ syncRun' = [n |-> 2, clean |-> hist.failures = {}, total |-> sync.total]
    /\ res' = <<>>
    /\ connected' = TRUE
    /\ pc' = "idle"
    /\ sync' = NoSync
    /\ hist' = NoHist
    /\ overwrite' = FALSE
    /\ work' = <<>>
    /\ task' = <<>>
    /\ result' = <<>>
    /\ settled' = <<>>
    /\ httpCount' = <<>>
    /\ UNCHANGED <<diskVars, indexVars, gtfp, listing, ugn, slm, predVars, ugnOther,
                   restVars>>

NextResync ==
    \/ NextSync
    \/ SyncAgain

SpecResync == InitSync /\ [][NextResync]_vars


\* ---------------------------------------------------------------- getExistingOaiPredictions, getExistingPredictions

\* The model whose listings are asked for.
ListedModel == "unet"

nonOaiVars == <<diskVars, indexVars, res, connected, pc, batchVars, gtfp, listing, ugn,
                slm, predVars, sync, hist, ugnOther, syncRun, hook>>

\* The records of a model that JSON.parse accepts, by tile key.
OaiOnDisk(m) == {k \in Keys : oaiFile[<<m, k>>] = "json"}

\* oaiPredictionIndex.set(modelName, modelOaiData)
OaiSet(m, data) ==
    [n \in DOMAIN oaiPredictionIndex \cup {m} |->
        IF n = m THEN data ELSE oaiPredictionIndex[n]]

\* oaiPredictionIndex.get(shortModelName), [] when there is no entry.
OaiGet(index, m) == IF m \in DOMAIN index THEN index[m] ELSE {}

\* buildOaiIndex(), the other half of buildIndexes(): clear, then every
\* record that parses goes into its model's Map.
BuildOaiIndex ==
    /\ buildIndexesPromise = "pending"
    /\ oaiPredictionIndex' = [m \in {n \in Models : OaiOnDisk(n) # {}} |-> OaiOnDisk(m)]
    /\ oaiPredictionIndex' # oaiPredictionIndex
    /\ UNCHANGED <<oaiFile, oaiCall, predList, nonOaiVars>>

\* The enrichment pipeline writes a record, whole or not; a call in flight
\* or answered is from then on older than the disk.
OaiExternalCreate(m, k, content) ==
    /\ oaiFile[<<m, k>>] = "none"
    /\ oaiFile' = [oaiFile EXCEPT ![<<m, k>>] = content]
    /\ oaiCall' = IF oaiCall.st = "idle" THEN oaiCall ELSE [oaiCall EXCEPT !.dirty = TRUE]
    /\ UNCHANGED <<oaiPredictionIndex, predList, nonOaiVars>>

\* A record is removed by hand.
OaiExternalDelete(m, k) ==
    /\ oaiFile[<<m, k>>] # "none"
    /\ oaiFile' = [oaiFile EXCEPT ![<<m, k>>] = "none"]
    /\ oaiCall' = IF oaiCall.st = "idle" THEN oaiCall ELSE [oaiCall EXCEPT !.dirty = TRUE]
    /\ UNCHANGED <<oaiPredictionIndex, predList, nonOaiVars>>

\* A listing that answers from the Map as it is.
GetExistingOaiPredictionsCached(m) ==
    /\ oaiCall.st \in {"idle", "returned"}
    /\ oaiCall' = [NoOaiCall EXCEPT !.model = m, !.st = "returned",
                                    !.result = OaiGet(oaiPredictionIndex, m)]
    /\ UNCHANGED <<oaiFile, oaiPredictionIndex, predList, nonOaiVars>>

\* getExistingOaiPredictions(model) up to the loop of buildOaiIndexForModel:
\* a new Map, access(modelDir), glob('**/*.json'); a missing directory is a
\* glob without files.
GetExistingOaiPredictions(m) ==
    /\ oaiCall.st \in {"idle", "returned"}
    /\ oaiCall' = [NoOaiCall EXCEPT
                      !.model = m, !.st = "scan",
                      !.todo = FilterSeq(KeySeq, {k \in Keys : oaiFile[<<m, k>>] # "none"})]
    /\ UNCHANGED <<oaiFile, oaiPredictionIndex, predList, nonOaiVars>>

\* One turn of the loop: readFile and JSON.parse; a file that is gone or
\* does not parse is logged and left out.
OaiReadFile ==
    /\ oaiCall.st = "scan"
    /\ oaiCall.todo # <<>>
    /\ oaiCall' = [oaiCall EXCEPT
                      !.todo = Tail(@),
                      !.acc = IF oaiFile[<<oaiCall.model, Head(oaiCall.todo)>>] = "json"
                              THEN @ \cup {Head(oaiCall.todo)}
                              ELSE @]
    /\ UNCHANGED <<oaiFile, oaiPredictionIndex, predList, nonOaiVars>>

\* The loop is through: oaiPredictionIndex.set(model, modelOaiData), and the
\* caller reads the Map back and returns its entries with their coordinates.
OaiReturn ==
    /\ oaiCall.st = "scan"
    /\ oaiCall.todo = <<>>
    /\ oaiPredictionIndex' = OaiSet(oaiCall.model, oaiCall.acc)
    /\ oaiCall' = [oaiCall EXCEPT !.st = "returned", !.acc = {},
                                  !.result = OaiGet(oaiPredictionIndex', oaiCall.model)]
    /\ UNCHANGED <<oaiFile, predList, nonOaiVars>>

\* getExistingPredictions(model): await buildIndexesPromise, then
\* Array.from(predictionIndex.get(model) || []).
GetExistingPredictions(m) ==
    /\ buildIndexesPromise = "resolved"
    /\ predList' = [n |-> IF predList.n < 2 THEN predList.n + 1 ELSE 2,
                    prev |-> predList.result,
                    result |-> OaiGet(predictionIndex, m)]
    /\ predList' # predList
    /\ UNCHANGED <<oaiFile, oaiPredictionIndex, oaiCall, nonOaiVars>>

\* The three stores share no variable; a run exercises one of them.
TilesQuiet == \A c \in ListIds : listing[c] = NoListing
PredQuiet == predFile = {} /\ predList = NoPredList
OaiQuiet == oaiCall = NoOaiCall /\ \A f \in DOMAIN oaiFile : oaiFile[f] = "none"

\* Listings of tiles, prediction tiles and OAI records while other processes
\* add files to the three directories and delete files from them.
NextFresh ==
    \/ \E d \in Dirs : ~MicrotaskPending /\ WalkDir(0, d)
    \/ \E k \in Keys : PredQuiet /\ OaiQuiet /\ ExternalCreate(k)
    \/ \E k \in Keys : PredQuiet /\ OaiQuiet /\ ExternalDelete(k)
    \/ \E c \in ListIds : PredQuiet /\ OaiQuiet /\ GetExistingTiles(c, FALSE)
    \/ \E c \in ListIds : GetExistingTilesResume(c)
    \/ BuildPngIndex
    \/ \E k \in Keys : TilesQuiet /\ OaiQuiet /\ PredExternalCreate(ListedModel, k)
    \/ \E k \in Keys : TilesQuiet /\ OaiQuiet /\ PredExternalDelete(ListedModel, k)
    \/ TilesQuiet /\ OaiQuiet /\ GetExistingPredictions(ListedModel)
    \/ TilesQuiet /\ PredQuiet /\ BuildOaiIndex
    \/ \E k \in Keys, c \in {"json", "bad"} :
          TilesQuiet /\ PredQuiet /\ OaiExternalCreate(ListedModel, k, c)
    \/ \E k \in Keys : TilesQuiet /\ PredQuiet /\ OaiExternalDelete(ListedModel, k)
    \/ TilesQuiet /\ PredQuiet /\ GetExistingOaiPredictions(ListedModel)
    \/ OaiReadFile
    \/ OaiReturn

SpecFresh == Init /\ [][NextFresh]_vars


\* ---------------------------------------------------------------- useTileDownloader

serverVars == <<diskVars, indexVars, res, connected, pc, batchVars, gtfp, listing, ugn,
                slm, predVars, sync, hist, ugnOther, syncRun, oaiVars>>

\* updateSelection(tileKey, true) in download mode: a tile that is being
\* downloaded is not selectable.
SelectTile(k) ==
    /\ k \notin hook.selected
    /\ k \notin hook.downloading
    /\ hook' = [hook EXCEPT !.selected = @ \cup {k}]
    /\ UNCHANGED serverVars

\* What React does before it runs the effect again: the function the last
\* run returned, if it returned one, closes the stream the ref points to.
EffectCleanup(h) ==
    IF h.hasCleanup /\ h.eventSource = "open"
    THEN [h EXCEPT !.eventSource = "closed", !.open = @ - 1, !.hasCleanup = FALSE]
    ELSE [h EXCEPT !.hasCleanup = FALSE]

\* The body of the effect for a new downloadTrigger, mode "download".
EffectBody(h) ==
    LET tilesToDownload == h.selected \ h.downloaded
    IN  IF h.isDownloadActive
        THEN [h EXCEPT !.toast = "A download is already in progress."]
        ELSE IF h.selected = {}
        THEN [h EXCEPT !.toast = "No tiles selected"]
        ELSE IF tilesToDownload = {}
        THEN [h EXCEPT !.toast = "All selected tiles are already downloaded.",
                       !.selected = {}]
        ELSE [h EXCEPT !.isDownloadActive = TRUE,
                       !.isOpen = TRUE,
                       !.downloading = tilesToDownload,
                       !.selected = {},
                       !.eventSource = "open",
                       !.open = @ + 1,
                       !.newDownloadedTiles = {},
                       !.hasCleanup = TRUE,
                       !.toast = ""]

\* The download button is clicked: downloadTrigger changes, the component
\* renders and the effect runs.
TriggerDownload ==
    /\ hook.downloadTrigger < MaxTrigger
    /\ hook' = EffectBody(EffectCleanup(
                  [hook EXCEPT !.downloadTrigger = @ + 1, !.lastDownloadTrigger = @ + 1]))
    /\ UNCHANGED serverVars

\* es.onmessage with a tile's key: the tile joins newDownloadedTiles.
StreamMessage(k) ==
    /\ hook.eventSource = "open"
    /\ k \in hook.downloading \ hook.newDownloadedTiles
    /\ hook' = [hook EXCEPT !.newDownloadedTiles = @ \cup {k}]
    /\ UNCHANGED serverVars

\* cleanup() of the effect's closure.
Cleanup(h) ==
    [h EXCEPT !.eventSource = "null",
              !.open = IF h.eventSource = "open" THEN @ - 1 ELSE @,
              !.isDownloadActive = FALSE,
              !.isOpen = FALSE,
              !.downloading = {},
              !.downloaded = @ \cup h.newDownloadedTiles]

\* The listeners of an EventSource are called while it is open: event end,
\* or a failed connection (onerror).  Both call cleanup() and show a toast.
StreamEnd ==
    /\ hook.eventSource = "open"
    /\ hook' = [Cleanup(hook) EXCEPT !.toast = "Download complete."]
    /\ UNCHANGED serverVars

StreamError ==
    /\ hook.eventSource = "open"
    /\ hook' = Cleanup(hook)
    /\ UNCHANGED serverVars

\* EventSource.close(): readyState becomes CLOSED and the connection is
\* dropped; no event is dispatched to the closed object, so neither listener
\* of the effect runs.
Close(h) == [h EXCEPT !.eventSource = "closed", !.open = @ - 1]

\* handleCancelDownload(): close the stream the ref points to, show a toast.
HandleCancelDownload ==
    /\ hook.eventSource # "null"
    /\ hook' = [(IF hook.eventSource = "open" THEN Close(hook) ELSE hook)
                   EXCEPT !.toast = "Download cancelled."]
    /\ hook' # hook
    /\ UNCHANGED serverVars

\* One user of the download page.
NextHook ==
    \/ \E k \in Keys : SelectTile(k)
    \/ TriggerDownload
    \/ \E k \in Keys : StreamMessage(k)
    \/ StreamEnd
    \/ StreamError
    \/ HandleCancelDownload

SpecHook == Init /\ [][NextHook]_vars


\* ---------------------------------------------------------------- requests that run to their end

\* The longest list of a download request here.
MaxLiveTiles == 2

\* What the event loop does by itself once a request is in: every awaited
\* file operation, walk and fetch settles, one way or the other, and its
\* continuation runs.
Progress ==
    \/ SyncReadLabels
    \/ SyncReadLabelsFail
    \/ SyncReadNegs
    \/ SyncReadNegsFail
    \/ SyncRebuildFail
    \/ SyncPlan
    \/ SyncMaskPrep
    \/ SyncMaskPrepFail
    \/ SyncMaskWrite
    \/ SyncMaskWriteFail
    \/ SyncAfterMasks
    \/ \E i \in 1..Len(work) : TaskStep(i)
    \/ BatchEnd
    \/ \E w \in WalkerIds, d \in Dirs : WalkDir(w, d)

\* streamTiles reads neither a label nor good_negatives.json: a download is
\* followed on the disks without labels only.
NoLabels ==
    /\ labelFile = [p \in LabelPaths |-> "none"]
    /\ goodNegatives = <<>>

\* One request, a sync or a download of a list, on any disk; the subscriber
\* may go away while it runs.
NextLive ==
    \/ SyncStart
    \/ /\ NoLabels
       /\ \E tiles \in SeqsUpTo(Keys, MaxLiveTiles), ow \in BOOLEAN : DownloadTilesSSE(tiles, ow)
    \/ Disconnect
    \/ Progress

SpecLive == InitSync /\ [][NextLive]_vars /\ WF_vars(Progress)


\* ---------------------------------------------------------------- claims, Spec

InFlight == {i \in DOMAIN task : task[i] \in {"access", "fetch", "pipe", "close"}}

\* The step in which an overwrite=false call finds its file in place.
C1_SkipAction ==
    \A i \in DOMAIN task :
        (/\ pc = "batch" /\ ~overwrite
         /\ task[i] = "access" /\ tileFile[work[i]] # "none"
         /\ task'[i] # "access")
        => /\ task'[i] = "done"
           /\ result'[i] = "false"
           /\ httpCount' = httpCount /\ httpCount[i] = 0
           /\ tileFile' = tileFile
           /\ existingTiles' = existingTiles

C1_SkipState ==
    \A i \in DOMAIN task :
        result[i] = "false" =>
            /\ ~overwrite
            /\ httpCount[i] = 0
            /\ tileFile[work[i]] # "none"

\* C1: fetchTileNode with overwrite=false on a tile whose file exists returns
\* false, issues no HTTP request and changes neither the file nor the index;
\* the file is still there afterwards, so every later call skips the same way.
C1_FetchIdempotentSkip == []C1_SkipState /\ [][C1_SkipAction]_vars

C1_Witness ==
    \E i, j \in DOMAIN task :
        /\ i < j /\ work[i] = work[j] /\ ~overwrite
        /\ result[i] = "false" /\ result[j] = "false"
        /\ httpCount[i] = 0 /\ httpCount[j] = 0

\* C2: the canonical path {z}/{x}/{y}.png never holds a partial file, neither
\* while a fetch is writing nor after a fetch whose body stream failed.
C2_NoPartialAtCanonicalPath == \A k \in Keys : tileFile[k] # "partial"

\* C3: with the index built and no fetchTileNode call in flight, the index
\* holds key "x,y" exactly when the file of (x,y) exists on disk.
C3_IndexMatchesDisk ==
    (InFlight = {} /\ \A w \in WalkerIds : walker[w].st # "walking")
    => existingTiles = {k \in Keys : tileFile[k] # "none"}

\* C4: a streamTiles batch over N tiles carries exactly N item events, one per
\* requested tile whatever its outcome, then exactly one end event, written
\* only after all N tiles have resolved; every tile is attempted.
C4_BatchItemsThenEnd ==
    /\ Count(res, "end") <= 1
    /\ Count(res, "end") = 1 =>
          /\ pc = "done"
          /\ res[Len(res)] = EndEv
          /\ \A i \in DOMAIN task : task[i] = "done" /\ result[i] # "none"
          /\ Len(res) = Len(work) + 1
          /\ Len(settled) = Len(work)
          /\ \A i \in DOMAIN work : \E n \in DOMAIN settled : settled[n] = i
          /\ \A n \in DOMAIN settled :
                res[n] = [type |-> "item", key |-> work[settled[n]],
                          kind |-> CASE result[settled[n]] = "true" -> "downloaded"
                                     [] result[settled[n]] = "false" -> "skip"
                                     [] OTHER -> "error"]
    /\ pc = "done" => Count(res, "end") = 1

C4_Witness ==
    /\ pc = "done"
    /\ Len(work) >= 2
    /\ \E i, j \in DOMAIN task : result[i] = "threw" /\ result[j] = "true"
    /\ Count(res, "end") = 1

\* C5: at most CONCURRENCY fetchTileNode calls are started and not yet settled
\* at any moment, and the item events appear in the order the calls settled.
C5_BoundedPoolCompletionOrder ==
    /\ Cardinality(InFlight) <= CONCURRENCY
    /\ Len(Items(res)) = Len(settled)
    /\ \A n \in DOMAIN settled : Items(res)[n].key = work[settled[n]]

C5_Witness ==
    /\ Len(work) > CONCURRENCY
    /\ \E n, m \in DOMAIN settled : n < m /\ settled[n] > settled[m]
    /\ \E n \in DOMAIN settled : settled[n] > CONCURRENCY

\* C6: once the subscriber has disconnected, no fetch that was still queued
\* is started.
C6_NoStartAfterDisconnect ==
    [][~connected =>
         \A i \in DOMAIN task : task[i] = "queued" => task'[i] = "queued"]_vars

\* ---------------------------------------------------------------- claims, SpecSync

\* What was on disk when the sync request arrived.
Labels0 == hist.disk0.labels
Negs0 == hist.disk0.negs
Tiles0 == hist.disk0.tiles
Nwm0 == Negs0 \ Labels0
Missing0 == (Labels0 \cup Negs0) \ Tiles0
Total0 == Cardinality(Nwm0) + Cardinality(Missing0)

MaskItems(s) ==
    SelectSeq(s, LAMBDA e : e.type = "item" /\ e.kind \in {"mask", "maskerror"})
TileItems(s) ==
    SelectSeq(s, LAMBDA e : e.type = "item" /\ e.kind \in {"downloaded", "skip", "error"})
OneItemPerKey(items, S) ==
    /\ Len(items) = Cardinality(S)
    /\ {items[n].key : n \in DOMAIN items} = S
PhaseFailures == hist.failures \cap {"analyze", "plan", "maskprep"}

\* C7: the number in the total event is |negatives - labels| +
\* |(labels + negatives) - satellite tiles on disk|, the satellite tiles being
\* those a rebuild made during the run finds, not those of the cached index.
C7_TotalFormula ==
    \A n \in DOMAIN res : res[n].type = "total" => res[n].n = Total0

C7_Witness ==
    /\ pc # "idle"
    /\ Count(res, "total") = 1
    /\ hist.disk0.built
    /\ \E k \in Labels0 \cup Negs0 : k \in Tiles0 /\ k \notin hist.disk0.index
    /\ \E k \in Labels0 \cup Negs0 : k \notin Tiles0

C8_Order ==
    /\ \A n \in DOMAIN res : res[n].type = "total" => n = 1
    /\ (Len(res) > 0 /\ res[1].type # "total") => res = <<ErrorEv>>
    /\ \A n, m \in DOMAIN res :
          (n < m /\ res[n].type = "item" /\ res[n].kind \in {"downloaded", "skip", "error"})
          => ~(res[m].type = "item" /\ res[m].kind \in {"mask", "maskerror"})

C8_Whole ==
    /\ res[1] = TotalEv(Total0)
    /\ res[Len(res)] = EndEv
    /\ Count(res, "end") = 1
    /\ Count(res, "error") = 0
    /\ OneItemPerKey(MaskItems(res), Nwm0)
    /\ OneItemPerKey(TileItems(res), Missing0)
    /\ Len(Items(res)) = res[1].n
    /\ Len(res) = Len(Items(res)) + 2

C8_Finished == pc = "done" /\ Count(res, "total") = 1

C9_NothingToDo ==
    /\ sync.total = 0 => pc = "done"
    /\ (pc = "done" /\ hist.failures = {} /\ Total0 = 0) =>
          /\ res = <<TotalEv(0), EndEv>>
          /\ diskVars = hist.disk0.files
          /\ work = <<>>
          /\ httpCount = <<>>

C9_Witness ==
    /\ pc = "done"
    /\ res = <<TotalEv(0), EndEv>>
    /\ Negs0 # {}
    /\ Labels0 # Negs0

\* The terminal events of a sync stream: at most one, the last event, there
\* once the handler is done; error only after a failure of a whole phase.
C10_OneTerminal ==
    /\ Count(res, "end") + Count(res, "error") <= 1
    /\ pc = "done" <=> Count(res, "end") + Count(res, "error") = 1
    /\ pc = "done" => res[Len(res)].type \in {"end", "error"}
    /\ Count(res, "error") = 1 <=> PhaseFailures # {}

C11_MaskFailureNonFatal ==
    ("maskio" \in hist.failures /\ PhaseFailures = {}) =>
        /\ Count(res, "error") = 0
        /\ \E n \in DOMAIN res : res[n].type = "item" /\ res[n].kind = "maskerror"
        /\ pc \in {"masks", "batch", "done"}
        /\ pc = "masks" => Len(MaskItems(res)) = sync.next - 1
        /\ pc \in {"batch", "done"} => OneItemPerKey(MaskItems(res), Nwm0)
        /\ pc = "batch" => {work[i] : i \in DOMAIN work} = Missing0
        /\ pc = "done" =>
              /\ OneItemPerKey(TileItems(res), Missing0)
              /\ res[Len(res)] = EndEv
              /\ Count(res, "end") = 1

C11_Witness ==
    /\ pc = "done"
    /\ Len(res) = 6
    /\ res[1] = TotalEv(4)
    /\ res[2] = ItemEv("maskerror", <<10, 20>>)
    /\ res[3] = ItemEv("mask", <<10, 21>>)
    /\ res[4].type = "item" /\ res[5].type = "item"
    /\ {res[4].key, res[5].key} = {<<10, 20>>, <<10, 21>>}
    /\ res[6] = EndEv

\* ---------------------------------------------------------------- claims, SpecLabels

\* C12: after updateGoodNegatives(S) has succeeded, getGoodNegatives() returns
\* exactly the distinct elements of S and good_negatives.json holds them as a
\* sorted array without duplicates: a full overwrite, no key of the previous
\* set that is absent from S survives.
C12_GoodNegativesRoundTrip ==
    ugn.st = "ok" =>
        /\ Range(goodNegatives) = Range(ugn.body)
        /\ \A n, m \in DOMAIN goodNegatives :
              n < m => StrLess(KeyString(goodNegatives[n]), KeyString(goodNegatives[m]))
        /\ \A k \in ugn.current \ Range(ugn.body) : k \notin Range(goodNegatives)

C12_Witness ==
    /\ ugn.st = "ok"
    /\ ugn.body = <<(<<10, 21>>), (<<10, 20>>), (<<10, 21>>)>>
    /\ ugn.current \ Range(ugn.body) # {}
    /\ goodNegatives = <<(<<10, 20>>), (<<10, 21>>)>>

\* The step in which updateGoodNegatives returns.
UgnReturns == ugn.st = "run" /\ ugn'.st = "ok"

Malformed(u) == ~u.isArray \/ \E n \in DOMAIN u.body : u.body[n] \in BadKeys

\* C19: an updateGoodNegatives request whose body is not an array, or is an
\* array with an element that is not an "x,y" string, is rejected: no step of
\* its handler writes a mask or good_negatives.json, and it never succeeds.
C19_MalformedRejected ==
    [][(ugn' # ugn /\ Malformed(ugn')) =>
          /\ labelFile' = labelFile
          /\ goodNegatives' = goodNegatives
          /\ ugn'.st # "ok"]_vars

\* ---------------------------------------------------------------- claims, SpecRace

\* C15: in every reachable state, whatever the interleaving of a sync run with
\* updateGoodNegatives calls, an all-zero mask file exists only for a tile
\* that is a member of the persisted good-negative set.  Stated here for the
\* states at rest, where no handler is between two of its writes.
C15_BlackMaskOnlyForMembers ==
    (ugn.st \notin {"read", "run"} /\ pc \in {"idle", "done"}) =>
        \A k \in Keys : labelFile[k] = "black" => k \in Range(goodNegatives)

\* ---------------------------------------------------------------- claims, SpecIndex, SpecLookup

FilesOnDisk == {k \in TileKeys : tileFile[k] # "none"}

\* C16: a forced rebuild is swapped in atomically: with the files on disk
\* unchanged, every getExistingTiles result, forced or cached, is the complete
\* set of tiles on disk and every getTileFilePath lookup of a tile on disk
\* finds it, also while rebuilds are in progress.
C16_RebuildAtomic ==
    /\ \A c \in ListIds : listing[c].st = "returned" => listing[c].tiles = FilesOnDisk
    /\ (gtfp.st = "returned" /\ gtfp.key \in FilesOnDisk) => gtfp.ret = "path"

\* C18: getTileFilePath returns the path of a tile whose file exists even
\* when an external process created it and the index does not hold its key;
\* it returns null only when the file does not exist.
C18_SelfHealingLookup ==
    (gtfp.st = "returned" /\ gtfp.ret = "null") => ~gtfp.exists

\* ---------------------------------------------------------------- claims, SpecPred

\* C17: getPredictionFilePath(model, z, x, y) returns the tile's path whenever
\* the prediction file exists on disk, also when the key or the whole model is
\* absent from the index, and that lookup inserts the key; it returns null
\* when the key is not indexed and the file is absent.
C17_PredictionSelfHealing ==
    predCall.st = "returned" =>
        /\ predCall.exists => predCall.ret = "path"
        /\ (predCall.exists /\ ~predCall.indexed) =>
              /\ predCall.model \in DOMAIN predictionIndex
              /\ predCall.key \in predictionIndex[predCall.model]
        /\ (~predCall.exists /\ ~predCall.indexed) => predCall.ret = "null"

C17_Witness ==
    /\ predCall.st = "returned"
    /\ predCall.ret = "path"
    /\ predCall.exists /\ ~predCall.indexed
    /\ DOMAIN predictionIndex = {predCall.model}
    /\ predictionIndex[predCall.model] = {predCall.key}

\* ---------------------------------------------------------------- claims, SpecDownload

\* C20: a downloadTilesSSE stream has exactly one terminal event, its last:
\* end after a batch that ran, an error-typed event after a failure that
\* stopped the request (an unparsable payload); such a failure is never
\* reported as an ordinary item line.
C20_DownloadTerminalEvent ==
    /\ Count(res, "end") + Count(res, "error") <= 1
    /\ pc = "done" =>
          /\ Count(res, "end") + Count(res, "error") = 1
          /\ res[Len(res)].type \in {"end", "error"}
          /\ "payload" \in hist.failures <=> res[Len(res)] = ErrorEv
          /\ "payload" \in hist.failures => Items(res) = <<>>

\* ---------------------------------------------------------------- claims, fetch failures and requests

\* C23: a non-2xx answer of the provider makes fetchTileNode throw: the step
\* writes nothing (a tile already on disk stays as it was, with overwrite=true
\* too), leaves the index alone, and the batch reports it as one error item.
C23_HttpErrorNoWrite ==
    [][\A i \in DOMAIN task :
          (pc = "batch" /\ task[i] = "fetch" /\ task'[i] = "done")
          => /\ result'[i] = "threw"
             /\ tileFile' = tileFile
             /\ existingTiles' = existingTiles
             /\ res' = Append(res, ItemEv("error", work[i]))]_vars

C23_Witness ==
    /\ overwrite
    /\ \E i \in DOMAIN task :
          /\ result[i] = "threw"
          /\ tileFile[work[i]] = "old"
          /\ \A j \in DOMAIN task : j # i => work[j] # work[i]
          /\ Len(SelectSeq(res, LAMBDA e : e = ItemEv("error", work[i]))) = 1

\* A callback of the batch, once started, is never started again, and a
\* settled one stays settled and sends nothing more.
C25_NoRestart ==
    \A i \in DOMAIN task :
        /\ (pc = "batch" /\ task[i] # "queued") => task'[i] # "queued"
        /\ (pc = "batch" /\ task[i] = "done")
           => /\ task'[i] = "done"
              /\ result'[i] = result[i]
              /\ httpCount'[i] = httpCount[i]

C25_OnceEach ==
    /\ DOMAIN task = DOMAIN work
    /\ Distinct(settled) = settled
    /\ \A i \in DOMAIN task :
          /\ httpCount[i] <= 1
          /\ task[i] = "done" <=> \E n \in DOMAIN settled : settled[n] = i
          /\ task[i] = "queued" => httpCount[i] = 0

\* C25: within one batch fetchTileNode is called exactly once per entry of the
\* list; a tile that failed is not tried again, and no entry causes more than
\* one HTTP request.
C25_OneAttemptPerEntry == []C25_OnceEach /\ [][C25_NoRestart]_vars

C25_Witness ==
    /\ pc = "done"
    /\ Len(work) = MaxTiles
    /\ \E i, j \in DOMAIN task :
          /\ result[i] = "threw" /\ httpCount[i] = 1
          /\ result[j] = "true" /\ httpCount[j] = 1
    /\ Len(settled) = Len(work)

\* The callbacks of the batch that have sent a request for key k, and those
\* that have opened the canonical path of k for writing.
Requesters(k) == {i \in DOMAIN work : work[i] = k /\ httpCount[i] >= 1}
Writers(k) == {i \in DOMAIN work : work[i] = k /\ (task[i] \in {"pipe", "close"} \/ result[i] = "true")}

\* C29: with overwrite=false at most one HTTP request is made and at most one
\* write to the canonical path is done per distinct tile key, also when the
\* key occurs more than once in the batch.
C29_OneRequestPerKey ==
    ~overwrite => \A k \in Keys : Cardinality(Requesters(k)) <= 1
                                  /\ Cardinality(Writers(k)) <= 1

\* ---------------------------------------------------------------- claims, hand-drawn labels

\* C28: no step of updateGoodNegatives destroys a hand-drawn label: a mask
\* that is not black, saved by saveLabelMask, is still at its path with the
\* same bytes after the step, whether its tile is added to the set, removed
\* from it or not named.
C28_DrawnLabelKept ==
    [][ugn' # ugn =>
          \A p \in LabelPaths :
              labelFile[p] \in {"faint", "drawn"} => labelFile'[p] = labelFile[p]]_vars

\* ---------------------------------------------------------------- claims, first build

\* While no forced rebuild has been asked for, the build of module load is
\* the only one, and its walk reads each directory once.
C26_WalkedOnce ==
    walker'[1].st = "unused" =>
        /\ walker'[0].todo \subseteq walker[0].todo
        /\ walker[0].st = "done" => walker'[0] = walker[0]

C26_SharedBuild ==
    walker[1].st = "unused" =>
        /\ buildIndexPromise = 0
        /\ \A c \in ListIds :
              /\ listing[c].st = "await" => listing[c].w = 0
              /\ listing[c].st = "returned" =>
                    walker[0].st = "done" /\ listing[c].tiles = FilesOnDisk
        /\ gtfp.st = "await" => gtfp.w = 0
        /\ gtfp.st \in {"access", "returned"} => walker[0].st = "done"
        /\ gtfp.st = "access" => gtfp.key \in FilesOnDisk
        /\ gtfp.st = "returned" => (gtfp.ret = "path" <=> gtfp.key \in FilesOnDisk)

\* C26: callers of the cached getExistingTiles and of getTileFilePath that
\* arrive before the first build is through share that build: the tree is
\* walked once, each caller goes on only when the build has finished, and it
\* then sees the complete index.
C26_FirstBuildShared == []C26_SharedBuild /\ [][C26_WalkedOnce]_vars

\* One caller has gone on, the other, which awaited the same build, is about to.
C26_Witness ==
    /\ walker[1].st = "unused"
    /\ walker[0].st = "done"
    /\ FilesOnDisk = IndexKeys
    /\ listing["a"].st = "await"
    /\ listing["b"].st = "returned"
    /\ listing["b"].tiles = IndexKeys

\* ---------------------------------------------------------------- claims, SpecOverlap

\* C22: when two updateGoodNegatives calls with arrays A and B overlap and
\* both complete, good_negatives.json holds exactly sorted(unique(A)) or
\* exactly sorted(unique(B)), never a mixture of the two.
C22_LastWriterWins ==
    (ugn.st = "ok" /\ ugnOther.st = "ok")
    => goodNegatives \in {SortKeys(Range(ugn.body)), SortKeys(Range(ugnOther.body))}

\* ---------------------------------------------------------------- claims, SpecResync

C21_Listings ==
    /\ (oaiCall.st = "returned" /\ ~oaiCall.dirty)
       => oaiCall.result = OaiOnDisk(oaiCall.model)
    /\ predList.n = 2 => predList.result = predList.prev
    /\ \A c \in ListIds :
          (listing[c].st = "returned" /\ ~listing[c].force)
          => walker[0].st = "done" /\ listing[c].tiles = existingTiles

\* A file that comes or goes changes neither cached index, and the cached
\* listings walk no directory.
C21_NoScan ==
    /\ (tileFile' # tileFile \/ predFile' # predFile)
       => /\ existingTiles' = existingTiles
          /\ walker' = walker
          /\ predictionIndex' = predictionIndex
    /\ (listing' # listing \/ predList' # predList)
       => /\ existingTiles' = existingTiles
          /\ walker' = walker
          /\ buildIndexPromise' = buildIndexPromise
          /\ predictionIndex' = predictionIndex

\* C21: freshness differs by endpoint: getExistingOaiPredictions scans the
\* model's directory on every call, so a call made after an external create
\* or delete returns exactly the parseable records on disk;
\* getExistingPredictions and the cached getExistingTiles answer from the
\* index without scanning, so an external file change alone does not alter
\* what they return.
C21_FreshnessPerEndpoint == []C21_Listings /\ [][C21_NoScan]_vars

\* An OAI listing that found a record the index of module load never held
\* and left out one that does not parse.
C21_Witness ==
    /\ buildIndexesPromise = "resolved"
    /\ oaiCall.st = "returned"
    /\ ~oaiCall.dirty
    /\ oaiCall.result = {<<10, 20>>}
    /\ oaiFile[<<ListedModel, <<10, 21>>>>] = "bad"

\* ---------------------------------------------------------------- claims, SpecHook

\* C30: cancelling through handleCancelDownload runs the stream's cleanup:
\* once the cancel has been acknowledged the active flag is cleared, the
\* progress is closed and the downloading set is empty, which is what lets the
\* next trigger open a new stream; and at most one stream is open at any time.
C30_CancelCleansUp ==
    /\ hook.toast = "Download cancelled."
       => /\ ~hook.isDownloadActive
          /\ ~hook.isOpen
          /\ hook.downloading = {}
    /\ hook.open <= 1

\* ---------------------------------------------------------------- claims, SpecLive

\* The response has its terminal event and is closed.
Terminated ==
    /\ pc = "done"
    /\ res # <<>>
    /\ res[Len(res)].type \in {"end", "error"}
    /\ Count(res, "end") + Count(res, "error") = 1

====
